---- MODULE Spec2Model ----
(***************************************************************************)
(* Model of the GAIA backend: the station synthesis pipeline               *)
(* (app/core/geometry.py), the result merger (app/core/merge.py), the job  *)
(* status resolver (app/core/job_status.py) and the job routes             *)
(* (app/api/routes/jobs.py) with the S3 helpers (app/core/s3_io.py).       *)
(*                                                                         *)
(* Lengths are integers counted in units of the matching tolerance         *)
(* (1e-3 m), so TOLERANCE is 1.  Measured points are drawn on one axis,    *)
(* sorted ascending by the orderer, where hypot and the linear             *)
(* interpolation are exact in integers.                                    *)
(* Python's None is the empty sequence, a present value v is <<v>>.        *)
(***************************************************************************)
EXTENDS Integers, Sequences, FiniteSets, TLC

\* ------------------------------------------------------------------------
\* Bounds
\* ------------------------------------------------------------------------
MaxPts == 3
MaxCoord == 2
MaxVal == 2
MaxSpacing == 2
\* spacing is a caller-supplied float; the non-positive ones are -MaxNegSpacing..0
MaxNegSpacing == 1
\* rows of a train/predict artifact handed to the merger, their d_along range,
\* and the number of values the predictor returns
MaxRows == 2
MaxD == 1
MaxPred == 2
\* measured points and data rows of the CSV a POST /jobs request uploads
MaxSysPts == 2
MaxCsvRows == 2
TOLERANCE == 1

\* coordinates lie on a grid whose step is just above the tolerance, so that
\* a target can fall within the tolerance of a measured point, on it, or
\* away from every one
GridStep == TOLERANCE + 1
\* with positive spacing the loop emits at most GridStep * MaxCoord + 1 targets
MaxTargets == GridStep * MaxCoord + 2

None == <<>>
Some(v) == <<v>>

Abs(a) == IF a < 0 THEN 0 - a ELSE a

Max(S) == CHOOSE m \in S : \A e \in S : e <= m
Min(S) == CHOOSE m \in S : \A e \in S : m <= e

\* math.hypot, exact on the axis-aligned segments the inputs produce
hypot(a, b) ==
    IF b = 0 THEN Abs(a)
    ELSE IF a = 0 THEN Abs(b)
    ELSE CHOOSE r \in 0..(Abs(a) + Abs(b)) :
            r * r <= a * a + b * b /\ a * a + b * b < (r + 1) * (r + 1)

\* ------------------------------------------------------------------------
\* geometry.py
\* ------------------------------------------------------------------------

\* sorted(points, key=...) : Python's sort is stable
InsertByKey(r, t, k) ==
    LET n == Cardinality({i \in 1..Len(t) : t[i][k] <= r[k]})
    IN  SubSeq(t, 1, n) \o <<r>> \o SubSeq(t, n + 1, Len(t))

RECURSIVE sorted(_, _)
sorted(s, k) ==
    IF s = <<>> THEN <<>>
    ELSE InsertByKey(s[Len(s)], sorted(SubSeq(s, 1, Len(s) - 1), k), k)

order_points_along_traverse(pts) ==
    IF Len(pts) < 2 THEN pts
    ELSE LET xs == {pts[i].x : i \in 1..Len(pts)}
             ys == {pts[i].y : i \in 1..Len(pts)}
             dx == Max(xs) - Min(xs)
             dy == Max(ys) - Min(ys)
         IN  IF dx >= dy THEN sorted(pts, "x") ELSE sorted(pts, "y")

RECURSIVE cumulative_d(_, _)
cumulative_d(pts, n) ==
    IF n = 1 THEN 0
    ELSE cumulative_d(pts, n - 1)
           + hypot(pts[n].x - pts[n - 1].x, pts[n].y - pts[n - 1].y)

compute_cumulative_distance(pts) ==
    [n \in 1..Len(pts) |->
        [x |-> pts[n].x, y |-> pts[n].y, value |-> pts[n].value,
         d_along |-> cumulative_d(pts, n)]]

\* returns <<x, y>>
interpolate_point(p1, p2, target_d) ==
    LET d1 == p1.d_along
        d2 == p2.d_along
    IN  IF d2 = d1 THEN <<p1.x, p1.y>>
        ELSE <<p1.x + ((target_d - d1) * (p2.x - p1.x)) \div (d2 - d1),
               p1.y + ((target_d - d1) * (p2.y - p1.y)) \div (d2 - d1)>>

\* the inner while of generate_target_stations; i is Python's 0-based cursor
RECURSIVE advance_cursor(_, _, _)
advance_cursor(pwd, i, current_d) ==
    IF i < Len(pwd) - 2 /\ pwd[i + 2].d_along < current_d
    THEN advance_cursor(pwd, i + 1, current_d)
    ELSE i

\* the outer while of generate_target_stations.  err is "none" on return,
\* "IndexError" when points_with_distance[i + 1] does not exist, and
\* "unbounded" when the loop is still running after MaxTargets targets.
RECURSIVE generate_loop(_, _, _, _, _)
generate_loop(pwd, sp, current_d, i, targets) ==
    IF ~(current_d <= pwd[Len(pwd)].d_along)
    THEN [err |-> "none", targets |-> targets]
    ELSE IF Len(targets) >= MaxTargets
    THEN [err |-> "unbounded", targets |-> targets]
    ELSE LET j == advance_cursor(pwd, i, current_d)
         IN  IF j + 2 > Len(pwd)
             THEN [err |-> "IndexError", targets |-> targets]
             ELSE LET xy == interpolate_point(pwd[j + 1], pwd[j + 2], current_d)
                  IN  generate_loop(pwd, sp, current_d + sp, j,
                          Append(targets,
                              [x |-> xy[1], y |-> xy[2], d_along |-> current_d]))

generate_target_stations(pwd, sp) ==
    IF pwd = <<>> THEN [err |-> "none", targets |-> <<>>]
    ELSE generate_loop(pwd, sp, 0, 0, <<>>)

\* the scan with no break: the last measured point within TOLERANCE wins
last_match(measured, d) ==
    LET hits == {k \in 1..Len(measured) : Abs(measured[k].d_along - d) <= TOLERANCE}
    IN  IF hits = {} THEN 0 ELSE Max(hits)

\* first measured point within TOLERANCE of d, scanned in order; 0 if none
first_match(measured, d) ==
    LET hits == {k \in 1..Len(measured) : Abs(measured[k].d_along - d) <= TOLERANCE}
    IN  IF hits = {} THEN 0 ELSE Min(hits)

classify_stations(sts, measured) ==
    [n \in 1..Len(sts) |->
        LET m == first_match(measured, sts[n].d_along)
        IN  [station_index |-> n - 1,
             x |-> sts[n].x, y |-> sts[n].y, d_along |-> sts[n].d_along,
             measured |-> IF m # 0 THEN 1 ELSE 0,
             value |-> IF m # 0 THEN Some(measured[m].value) ELSE None]]

station_row(s) ==
    [station_index |-> s.station_index, x |-> s.x, y |-> s.y,
     d_along |-> s.d_along, value |-> s.value]

\* The if/else that appends the row is dedented out of the for loop
\* (geometry.py:206-219): the loop only rebinds row, and the append runs once,
\* after the loop, on the last station.  With no station s is unbound.
split_train_predict(cs) ==
    IF cs = <<>>
    THEN [err |-> "UnboundLocalError", train |-> <<>>, predict |-> <<>>]
    ELSE LET s == cs[Len(cs)]
             row == station_row(s)
         IN  IF s.measured = 1
             THEN [err |-> "none", train |-> <<row>>, predict |-> <<>>]
             ELSE [err |-> "none", train |-> <<>>, predict |-> <<row>>]

\* err, canonical
build_canonical_stations_sparse(measured_points, sp) ==
    LET ord == order_points_along_traverse(measured_points)
        with_distance == compute_cumulative_distance(ord)
        gen == generate_target_stations(with_distance, sp)
    IN  [err |-> gen.err,
         canonical |-> IF gen.err = "none"
                       THEN classify_stations(gen.targets, with_distance)
                       ELSE <<>>]

\* ------------------------------------------------------------------------
\* CSV artifacts.  An artifact is None when the file does not exist and
\* Some(rows) when it does; a row maps each column of the header to a cell,
\* and a cell is Some(number) or None for the empty string.
\* ------------------------------------------------------------------------

\* csv.DictWriter writes None as the empty string and a float as its repr
csv_cell(row, k) ==
    IF k \notin DOMAIN row THEN None
    ELSE IF k = "value" THEN row[k]
    ELSE Some(row[k])

\* csv.DictWriter.writerows: a row holding a key outside fieldnames raises
\* ValueError (extrasaction="raise"); the rows before it are written.
DictWriter_writerows(rows, fieldnames) ==
    LET bad == {n \in 1..Len(rows) : ~(DOMAIN rows[n] \subseteq fieldnames)}
        upto == IF bad = {} THEN Len(rows) ELSE Min(bad) - 1
    IN  [err |-> IF bad = {} THEN "none" ELSE "ValueError",
         rows |-> [n \in 1..upto |-> [k \in fieldnames |-> csv_cell(rows[n], k)]]]

\* float(r[k]) for each k of fs in turn: the first exception, "none" if none
RECURSIVE load_error(_, _)
load_error(r, fs) ==
    IF fs = <<>> THEN "none"
    ELSE IF Head(fs) \notin DOMAIN r THEN "KeyError"
    ELSE IF r[Head(fs)] = None THEN "ValueError"
    ELSE load_error(r, Tail(fs))

rows_load_error(rows, fs) ==
    LET bad == {n \in 1..Len(rows) : load_error(rows[n], fs) # "none"}
    IN  IF bad = {} THEN "none" ELSE load_error(rows[Min(bad)], fs)

\* ------------------------------------------------------------------------
\* merge.py
\* ------------------------------------------------------------------------
MismatchError == "ValueError: row count mismatch"

measured_row(r) ==
    [x |-> r.x[1], y |-> r.y[1], d_along |-> r.d_along[1],
     value |-> r.value[1], source |-> "measured"]

predicted_row(geom, pred) ==
    [x |-> geom.x[1], y |-> geom.y[1], d_along |-> geom.d_along[1],
     value |-> pred.predicted_value[1], source |-> "predicted"]

\* merge.py:67: the test that raises ValueError
row_count_mismatch_off(predict_rows, predictions) == FALSE

row_count_mismatch(predict_rows, predictions) ==
    Len(predict_rows) # Len(predictions)

\* merge.py:73: zip stops at the shorter of the two lists
attach_predictions(predict_rows, predictions) ==
    [n \in 1..Min({Len(predict_rows), Len(predictions)}) |->
        predicted_row(predict_rows[n], predictions[n])]

\* merge.py:85: merged_rows.sort(key=lambda r: r["d_along"])
sort_by_d_along_skipped(rows) == rows

sort_by_d_along(rows) == sorted(rows, "d_along")

\* merge_job_results up to the sort: the exception raised, or the sorted
\* merged_rows that step 6 writes
merge_rows(train, predict, predictions) ==
    LET e1 == rows_load_error(train[1], <<"x", "y", "d_along", "value">>)
        e2 == rows_load_error(predict[1], <<"x", "y", "d_along">>)
        e3 == rows_load_error(predictions[1], <<"predicted_value">>)
    IN  IF train = None \/ predict = None \/ predictions = None
        THEN [err |-> "FileNotFoundError", rows |-> <<>>]
        ELSE IF e1 # "none" THEN [err |-> e1, rows |-> <<>>]
        ELSE IF e2 # "none" THEN [err |-> e2, rows |-> <<>>]
        ELSE IF e3 # "none" THEN [err |-> e3, rows |-> <<>>]
        ELSE IF row_count_mismatch(predict[1], predictions[1])
        THEN [err |-> MismatchError, rows |-> <<>>]
        ELSE [err |-> "none",
              rows |-> sort_by_d_along(
                  [n \in 1..Len(train[1]) |-> measured_row(train[1][n])]
                  \o attach_predictions(predict[1], predictions[1]))]

\* final.csv between open(final_path, "w") and the close that flushes it
final_opened == Some([header |-> FALSE, rows |-> <<>>])
\* final.csv once writeheader, writerows and the close are done
final_written(rows) == Some([header |-> TRUE, rows |-> rows])

\* ------------------------------------------------------------------------
\* State
\* ------------------------------------------------------------------------
VARIABLES
    \* the synthesis pipeline run on its own
    gpc,              \* stage of the pipeline
    gpoints,          \* measured points handed to the pipeline
    gspacing,         \* spacing handed to the pipeline
    gparam,           \* points_with_distance
    gtargets,         \* generated targets
    gcanonical,       \* classified stations
    gtrain,           \* split_train_predict's train
    gpredict,         \* split_train_predict's predict
    gerr,             \* exception raised by the pipeline, "none" if none
    \* data/<job_id>/ of one job id
    ws,               \* the directory exists
    original_csv,     \* original.csv exists
    train_csv,        \* train.csv
    predict_csv,      \* predict.csv
    predictions_csv,  \* predictions.csv
    final_csv,        \* final.csv
    error_json,       \* error.json
    inference_json,   \* inference.json
    \* the bucket
    s3_inputs,        \* jobs/<job_id>/input/* and sagemaker/inference_input.csv
    s3_output,        \* jobs/<job_id>/sagemaker/inference_output.csv
    async_keys,       \* keys under jobs/async-output/
    \* the POST /jobs request that draws this job id
    cj,               \* its position
    cj_train,         \* train_rows
    cj_predict,       \* predict_rows
    cj_out,           \* outcome of trigger_inference
    cj_resp,          \* its response
    \* the GET /jobs/{job_id}/status requests
    ppc,              \* position of each request thread
    pmerged,          \* merged_rows of the merge it is running
    perr,             \* exception try_merge swallowed in its last run
    resp,             \* the status it returned last
    \* return value of a function called on its own
    ret

gvars == <<gpc, gpoints, gspacing, gparam, gtargets, gcanonical, gtrain,
           gpredict, gerr>>
fvars == <<ws, original_csv, train_csv, predict_csv, predictions_csv,
           final_csv, error_json, inference_json>>
svars == <<s3_inputs, s3_output, async_keys>>
cvars == <<cj, cj_train, cj_predict, cj_out, cj_resp>>
pvars == <<ppc, pmerged, perr, resp>>
vars == <<gvars, fvars, svars, cvars, pvars, ret>>

Pollers == {"t1", "t2"}

GeoIdle ==
    /\ gpc = "idle"
    /\ gpoints = <<>>
    /\ gspacing = 1
    /\ gparam = <<>>
    /\ gtargets = <<>>
    /\ gcanonical = <<>>
    /\ gtrain = <<>>
    /\ gpredict = <<>>
    /\ gerr = "none"

NoWorkspace ==
    /\ ws = FALSE
    /\ original_csv = FALSE
    /\ train_csv = None
    /\ predict_csv = None
    /\ predictions_csv = None
    /\ final_csv = None
    /\ error_json = None
    /\ inference_json = None

EmptyBucket ==
    /\ s3_inputs = FALSE
    /\ s3_output = None
    /\ async_keys = {}

NoRequests ==
    /\ cj = "idle"
    /\ cj_train = <<>>
    /\ cj_predict = <<>>
    /\ cj_out = "none"
    /\ cj_resp = "none"

NoPolls ==
    /\ ppc = [p \in Pollers |-> "idle"]
    /\ pmerged = [p \in Pollers |-> <<>>]
    /\ perr = [p \in Pollers |-> "none"]
    /\ resp = [p \in Pollers |-> "none"]

\* ------------------------------------------------------------------------
\* job_status.py
\* ------------------------------------------------------------------------
async_key(id, ext) == [id |-> id, ext |-> ext]

\* job_status.py:30-48, the branch taken when inference.json exists.
\* "KeyError" stands for the exception json.load(f)["inference_id"] raises
\* when the record has no such key.
inference_status ==
    IF "inference_id" \notin DOMAIN inference_json[1] THEN "KeyError"
    ELSE IF async_keys # {}
            /\ async_key(inference_json[1]["inference_id"], "error") \in async_keys
    THEN "failed"
    ELSE IF async_keys # {}
            /\ async_key(inference_json[1]["inference_id"], "out") \in async_keys
    THEN "completed_inference"
    ELSE "inferencing"

\* job_status with the predictions.csv test moved above the final.csv test
job_status_predictions_first ==
    IF ~ws THEN "not_found"
    ELSE IF error_json # None THEN "failed"
    ELSE IF predictions_csv # None THEN "merging"
    ELSE IF final_csv # None THEN "complete"
    ELSE IF inference_json # None THEN inference_status
    ELSE IF train_csv # None THEN "processing"
    ELSE "accepted"

job_status ==
    IF ~ws THEN "not_found"
    ELSE IF error_json # None THEN "failed"
    ELSE IF final_csv # None THEN "complete"
    ELSE IF predictions_csv # None THEN "merging"
    ELSE IF inference_json # None THEN inference_status
    ELSE IF train_csv # None THEN "processing"
    ELSE "accepted"

\* ------------------------------------------------------------------------
\* The synthesis pipeline, one action per function
\* ------------------------------------------------------------------------
Coords == {GridStep * k : k \in 0..MaxCoord}
Values == 1..MaxVal
PointsOnX == [x : Coords, y : {0}, value : Values]
PointsOnY == [x : {0}, y : Coords, value : Values]

SeqsUpTo(S, n) == UNION {[1..k -> S] : k \in 0..n}

MeasuredInputs == SeqsUpTo(PointsOnX, MaxPts) \cup SeqsUpTo(PointsOnY, MaxPts)
Spacings == (0 - MaxNegSpacing)..MaxSpacing

GeoInit ==
    /\ gpc = "input"
    /\ gpoints \in MeasuredInputs
    /\ gspacing \in Spacings
    /\ gparam = <<>>
    /\ gtargets = <<>>
    /\ gcanonical = <<>>
    /\ gtrain = <<>>
    /\ gpredict = <<>>
    /\ gerr = "none"
    /\ NoWorkspace /\ EmptyBucket /\ NoRequests /\ NoPolls
    /\ ret = "none"

Parameterize ==
    /\ gpc = "input"
    /\ gparam' = compute_cumulative_distance(order_points_along_traverse(gpoints))
    /\ gpc' = "parameterized"
    /\ UNCHANGED <<gpoints, gspacing, gtargets, gcanonical, gtrain, gpredict, gerr>>
    /\ UNCHANGED <<fvars, svars, cvars, pvars, ret>>

Generate ==
    /\ gpc = "parameterized"
    /\ LET gen == generate_target_stations(gparam, gspacing)
       IN  /\ gtargets' = gen.targets
           /\ gerr' = gen.err
           /\ gpc' = IF gen.err = "none" THEN "generated" ELSE "raised"
    /\ UNCHANGED <<gpoints, gspacing, gparam, gcanonical, gtrain, gpredict>>
    /\ UNCHANGED <<fvars, svars, cvars, pvars, ret>>

Classify ==
    /\ gpc = "generated"
    /\ gcanonical' = classify_stations(gtargets, gparam)
    /\ gpc' = "classified"
    /\ UNCHANGED <<gpoints, gspacing, gparam, gtargets, gtrain, gpredict, gerr>>
    /\ UNCHANGED <<fvars, svars, cvars, pvars, ret>>

Split ==
    /\ gpc = "classified"
    /\ LET sp == split_train_predict(gcanonical)
       IN  /\ gtrain' = sp.train
           /\ gpredict' = sp.predict
           /\ gerr' = sp.err
           /\ gpc' = IF sp.err = "none" THEN "split" ELSE "raised"
    /\ UNCHANGED <<gpoints, gspacing, gparam, gtargets, gcanonical>>
    /\ UNCHANGED <<fvars, svars, cvars, pvars, ret>>

GeoNext == Parameterize \/ Generate \/ Classify \/ Split

SpecGeo == GeoInit /\ [][GeoNext]_vars

\* ------------------------------------------------------------------------
\* job_status called on every workspace
\* ------------------------------------------------------------------------
SmJobName == "sm-job"

\* the record create_job writes to inference.json (jobs.py:236-244)
inference_record(name) == [job_id |-> "job", sagemaker_job_name |-> name]
\* the record create_job writes to error.json (jobs.py:225-230)
error_record == [stage |-> "inference_trigger", error |-> "error"]

AsyncKeys == {async_key(SmJobName, e) : e \in {"out", "error"}}

StatusInit ==
    /\ GeoIdle /\ NoRequests /\ NoPolls
    /\ ws \in BOOLEAN
    /\ original_csv \in BOOLEAN
    /\ train_csv \in {None, Some(<<>>)}
    /\ predict_csv = train_csv
    /\ predictions_csv \in {None, Some(<<>>)}
    /\ final_csv \in {None, final_written(<<>>)}
    /\ error_json \in {None, Some(error_record)}
    /\ inference_json \in {None, Some(inference_record(SmJobName))}
    /\ ~ws => /\ ~original_csv /\ train_csv = None /\ predictions_csv = None
              /\ final_csv = None /\ error_json = None /\ inference_json = None
    /\ s3_inputs = FALSE
    /\ s3_output = None
    /\ async_keys \in SUBSET AsyncKeys
    /\ ret = "none"

StatusCall ==
    /\ ret' = job_status
    /\ UNCHANGED <<gvars, fvars, svars, cvars, pvars>>

StatusNext == StatusCall

SpecStatus == StatusInit /\ [][StatusNext]_vars

\* ------------------------------------------------------------------------
\* merge_job_results called on a workspace that holds TrainRow and PredictRow
\* artifacts (columns x, y, d_along, value), after download_predictions
\* ------------------------------------------------------------------------
DSeqs == SeqsUpTo(0..MaxD, MaxRows)

\* the n-th train row carries value n, so that rows are told apart
TrainArtifact(ds) ==
    [n \in 1..Len(ds) |->
        [x |-> Some(ds[n]), y |-> Some(0), d_along |-> Some(ds[n]),
         value |-> Some(n)]]

PredictArtifact(ds) ==
    [n \in 1..Len(ds) |->
        [x |-> Some(ds[n]), y |-> Some(0), d_along |-> Some(ds[n]),
         value |-> None]]

\* predictor outputs: n values, ascending or descending
PredictorOutputs ==
    {[n \in 1..k |-> [predicted_value |-> Some(MaxRows + n)]] : k \in 0..MaxPred}
    \cup {[n \in 1..k |-> [predicted_value |-> Some(MaxRows + k - n)]] : k \in 0..MaxPred}

MergeInit ==
    /\ GeoIdle /\ NoPolls
    /\ cj = "done" /\ cj_train = <<>> /\ cj_predict = <<>>
    /\ cj_out = "ok" /\ cj_resp = "inferencing"
    /\ s3_inputs = TRUE /\ s3_output = None /\ async_keys = {}
    /\ ws = TRUE
    /\ original_csv = TRUE
    /\ train_csv \in {None} \cup {Some(TrainArtifact(ds)) : ds \in DSeqs}
    /\ predict_csv \in {None} \cup {Some(PredictArtifact(ds)) : ds \in DSeqs}
    /\ predictions_csv = None
    /\ final_csv = None
    /\ error_json = None
    /\ inference_json = None
    /\ ret = "none"

\* download_predictions, with the object it finds in the bucket drawn here:
\* mkdir, then s3.download_file, which raises ClientError and leaves no file
\* when the object does not exist
DownloadCall ==
    /\ ws' = TRUE
    /\ \E object \in {None} \cup {Some(out) : out \in PredictorOutputs} :
         IF object = None
         THEN /\ ret' = "ClientError"
              /\ UNCHANGED predictions_csv
         ELSE /\ ret' = "downloaded"
              /\ predictions_csv' = object
    /\ UNCHANGED <<original_csv, train_csv, predict_csv, final_csv, error_json,
                   inference_json>>
    /\ UNCHANGED <<gvars, svars, cvars, pvars>>

\* merge_job_results run to its end: ret is the exception, or "final" on return
MergeCall ==
    /\ LET m == merge_rows(train_csv, predict_csv, predictions_csv)
       IN  IF m.err = "none"
           THEN /\ final_csv' = final_written(m.rows)
                /\ ret' = "final"
           ELSE /\ UNCHANGED final_csv
                /\ ret' = m.err
    /\ UNCHANGED <<ws, original_csv, train_csv, predict_csv, predictions_csv,
                   error_json, inference_json>>
    /\ UNCHANGED <<gvars, svars, cvars, pvars>>

MergeNext == DownloadCall \/ MergeCall

SpecMerge == MergeInit /\ [][MergeNext]_vars

\* ------------------------------------------------------------------------
\* jobs.py: POST /jobs for the job id it draws
\* ------------------------------------------------------------------------
SysPoints == [x : Coords, y : {0}, value : {1}]
SysMeasuredInputs == SeqsUpTo(SysPoints, MaxSysPts)

\* parse outcome of a data row in explicit_geometry: x, y and the value are
\* numbers; x and y are numbers and the value is empty; or the row is skipped
RowKinds == {"measured", "unmeasured", "skipped"}
CsvInputs == UNION {[1..k -> RowKinds] : k \in 1..MaxCsvRows}

explicit_train_rows(kinds) ==
    LET ns == SelectSeq([n \in 1..Len(kinds) |-> n], LAMBDA n : kinds[n] = "measured")
    IN  [m \in 1..Len(ns) |-> [x |-> ns[m], y |-> 0, value |-> Some(1)]]

explicit_predict_rows(kinds) ==
    LET ns == SelectSeq([n \in 1..Len(kinds) |-> n], LAMBDA n : kinds[n] = "unmeasured")
    IN  [m \in 1..Len(ns) |-> [x |-> ns[m], y |-> 0, value |-> None]]

\* steps 1, 4, 5 and 7's value_column test: the request is answered 400, before
\* the workspace exists (step 1) or after original.csv is saved (the others)
CreateJobReject ==
    /\ cj = "idle"
    /\ \E early \in BOOLEAN :
         IF early THEN UNCHANGED <<ws, original_csv>>
         ELSE ws' = TRUE /\ original_csv' = TRUE
    /\ cj' = "done"
    /\ cj_resp' = "400"
    /\ UNCHANGED <<train_csv, predict_csv, predictions_csv, final_csv,
                   error_json, inference_json>>
    /\ UNCHANGED <<cj_train, cj_predict, cj_out>>
    /\ UNCHANGED <<gvars, svars, pvars, ret>>

\* steps 2 to 5 pass: the workspace and original.csv are created
CreateJobAccept ==
    /\ cj = "idle"
    /\ ws' = TRUE
    /\ original_csv' = TRUE
    /\ cj' = "build"
    /\ UNCHANGED <<train_csv, predict_csv, predictions_csv, final_csv,
                   error_json, inference_json>>
    /\ UNCHANGED <<cj_train, cj_predict, cj_out, cj_resp>>
    /\ UNCHANGED <<gvars, svars, pvars, ret>>

\* step 6 up to split_train_predict.  No measured point is a 400, an
\* exception of the pipeline a 500, and a loop that does not end leaves the
\* request in "looping".
CreateJobBuildSparse ==
    /\ cj = "build"
    /\ \E pts \in SysMeasuredInputs, sp \in Spacings :
         LET b == build_canonical_stations_sparse(pts, sp)
             tp == split_train_predict(b.canonical)
         IN  IF pts = <<>>
             THEN /\ cj' = "done" /\ cj_resp' = "400"
                  /\ UNCHANGED <<cj_train, cj_predict>>
             ELSE IF b.err = "unbounded"
             THEN /\ cj' = "looping"
                  /\ UNCHANGED <<cj_train, cj_predict, cj_resp>>
             ELSE IF b.err # "none" \/ tp.err # "none"
             THEN /\ cj' = "done" /\ cj_resp' = "500"
                  /\ UNCHANGED <<cj_train, cj_predict>>
             ELSE /\ cj' = "write_sparse"
                  /\ cj_train' = tp.train
                  /\ cj_predict' = tp.predict
                  /\ UNCHANGED cj_resp
    /\ UNCHANGED cj_out
    /\ UNCHANGED <<gvars, fvars, svars, pvars, ret>>

\* step 6, the two writes.  The rows carry station_index, which is not among
\* the fieldnames: the first write that has a row raises ValueError after the
\* header is written, and the request ends in a 500.
CreateJobWriteSparse ==
    /\ cj = "write_sparse"
    /\ LET fields == {"x", "y", "d_along", "value"}
           wt == DictWriter_writerows(cj_train, fields)
           wp == DictWriter_writerows(cj_predict, fields)
       IN  /\ train_csv' = Some(wt.rows)
           /\ IF wt.err # "none"
              THEN /\ UNCHANGED predict_csv
                   /\ cj' = "done" /\ cj_resp' = "500"
              ELSE /\ predict_csv' = Some(wp.rows)
                   /\ IF wp.err # "none"
                      THEN cj' = "done" /\ cj_resp' = "500"
                      ELSE cj' = "upload" /\ UNCHANGED cj_resp
    /\ UNCHANGED <<ws, original_csv, predictions_csv, final_csv, error_json,
                   inference_json>>
    /\ UNCHANGED <<cj_train, cj_predict, cj_out>>
    /\ UNCHANGED <<gvars, svars, pvars, ret>>

\* step 7: the rows are sorted into train_rows and predict_rows
CreateJobBuildExplicit ==
    /\ cj = "build"
    /\ \E kinds \in CsvInputs :
         /\ cj_train' = explicit_train_rows(kinds)
         /\ cj_predict' = explicit_predict_rows(kinds)
    /\ cj' = "write_explicit"
    /\ UNCHANGED <<cj_out, cj_resp>>
    /\ UNCHANGED <<gvars, fvars, svars, pvars, ret>>

\* step 7, the two writes, with the columns x, y, value
CreateJobWriteExplicit ==
    /\ cj = "write_explicit"
    /\ LET fields == {"x", "y", "value"}
       IN  /\ train_csv' = Some(DictWriter_writerows(cj_train, fields).rows)
           /\ predict_csv' = Some(DictWriter_writerows(cj_predict, fields).rows)
    /\ cj' = "upload"
    /\ UNCHANGED <<ws, original_csv, predictions_csv, final_csv, error_json,
                   inference_json>>
    /\ UNCHANGED <<cj_train, cj_predict, cj_out, cj_resp>>
    /\ UNCHANGED <<gvars, svars, pvars, ret>>

\* step 8, upload_job_inputs: the uploads succeed, or boto3 raises and the
\* request ends in a 500
CreateJobUpload ==
    /\ cj = "upload"
    /\ original_csv /\ train_csv # None /\ predict_csv # None
    /\ \E ok \in BOOLEAN :
         IF ok
         THEN /\ s3_inputs' = TRUE
              /\ cj' = "trigger"
              /\ UNCHANGED cj_resp
         ELSE /\ UNCHANGED s3_inputs
              /\ cj' = "done"
              /\ cj_resp' = "500"
    /\ UNCHANGED <<s3_output, async_keys>>
    /\ UNCHANGED <<cj_train, cj_predict, cj_out>>
    /\ UNCHANGED <<gvars, fvars, pvars, ret>>

\* step 9, the call: trigger_inference returns the name of the request it
\* submitted, or raises
CreateJobTrigger ==
    /\ cj = "trigger"
    /\ \E out \in {"ok", "raised"} : cj_out' = out
    /\ cj' = "record"
    /\ UNCHANGED <<cj_train, cj_predict, cj_resp>>
    /\ UNCHANGED <<gvars, fvars, svars, pvars, ret>>

\* step 9, the except branch writes error.json; otherwise inference.json is
\* written and the response is "inferencing"
CreateJobRecord ==
    /\ cj = "record"
    /\ IF cj_out = "raised"
       THEN /\ error_json' = Some(error_record)
            /\ UNCHANGED inference_json
            /\ cj_resp' = "500"
       ELSE /\ inference_json' = Some(inference_record(SmJobName))
            /\ UNCHANGED error_json
            /\ cj_resp' = "inferencing"
    /\ cj' = "done"
    /\ UNCHANGED <<ws, original_csv, train_csv, predict_csv, predictions_csv,
                   final_csv>>
    /\ UNCHANGED <<cj_train, cj_predict, cj_out>>
    /\ UNCHANGED <<gvars, svars, pvars, ret>>

\* the predictor ends the request: it writes its output once
PredictorResolves ==
    /\ cj_out = "ok"
    /\ s3_output = None
    /\ \E out \in PredictorOutputs : s3_output' = Some(out)
    /\ UNCHANGED <<s3_inputs, async_keys>>
    /\ UNCHANGED <<gvars, fvars, cvars, pvars, ret>>

\* the predictor reports the end of the request, success or failure, under
\* jobs/async-output/
PredictorReports ==
    /\ cj_out = "ok"
    /\ async_keys = {}
    /\ \E k \in AsyncKeys : async_keys' = {k}
    /\ UNCHANGED <<s3_inputs, s3_output>>
    /\ UNCHANGED <<gvars, fvars, cvars, pvars, ret>>

\* ------------------------------------------------------------------------
\* jobs.py: GET /jobs/{job_id}/status, run by the threads of Pollers
\* ------------------------------------------------------------------------

\* try_merge with the error.json test left out
try_merge_returns_early_final_only == final_csv # None

\* jobs.py:285-289: the two existence tests that make try_merge return
try_merge_returns_early == final_csv # None \/ error_json # None

\* try_merge up to the try block: it returns, or goes on to the download
TryMergeGuard(p) ==
    /\ ppc[p] = "idle"
    /\ ppc' = [ppc EXCEPT ![p] =
                 IF try_merge_returns_early THEN "status" ELSE "mkdir"]
    /\ UNCHANGED <<pmerged, perr, resp>>
    /\ UNCHANGED <<gvars, fvars, svars, cvars, ret>>

\* download_predictions: job_dir.mkdir(parents=True, exist_ok=True)
DownloadMkdir(p) ==
    /\ ppc[p] = "mkdir"
    /\ ws' = TRUE
    /\ ppc' = [ppc EXCEPT ![p] = "fetch"]
    /\ UNCHANGED <<original_csv, train_csv, predict_csv, predictions_csv,
                   final_csv, error_json, inference_json>>
    /\ UNCHANGED <<pmerged, perr, resp>>
    /\ UNCHANGED <<gvars, svars, cvars, ret>>

\* download_predictions: s3.download_file; its exception is swallowed by
\* try_merge
DownloadFetch(p) ==
    /\ ppc[p] = "fetch"
    /\ IF s3_output = None
       THEN /\ UNCHANGED predictions_csv
            /\ perr' = [perr EXCEPT ![p] = "ClientError"]
            /\ ppc' = [ppc EXCEPT ![p] = "status"]
       ELSE /\ predictions_csv' = s3_output
            /\ UNCHANGED perr
            /\ ppc' = [ppc EXCEPT ![p] = "merge"]
    /\ UNCHANGED <<ws, original_csv, train_csv, predict_csv, final_csv,
                   error_json, inference_json>>
    /\ UNCHANGED <<pmerged, resp>>
    /\ UNCHANGED <<gvars, svars, cvars, ret>>

\* merge_job_results, steps 1 to 5; its exception is swallowed by try_merge
MergeLoad(p) ==
    /\ ppc[p] = "merge"
    /\ LET m == merge_rows(train_csv, predict_csv, predictions_csv)
       IN  IF m.err # "none"
           THEN /\ perr' = [perr EXCEPT ![p] = m.err]
                /\ ppc' = [ppc EXCEPT ![p] = "status"]
                /\ UNCHANGED pmerged
           ELSE /\ pmerged' = [pmerged EXCEPT ![p] = m.rows]
                /\ ppc' = [ppc EXCEPT ![p] = "open"]
                /\ UNCHANGED perr
    /\ UNCHANGED resp
    /\ UNCHANGED <<gvars, fvars, svars, cvars, ret>>

\* merge_job_results, step 6: open(final_path, "w") creates or truncates
MergeOpen(p) ==
    /\ ppc[p] = "open"
    /\ final_csv' = final_opened
    /\ ppc' = [ppc EXCEPT ![p] = "write"]
    /\ UNCHANGED <<ws, original_csv, train_csv, predict_csv, predictions_csv,
                   error_json, inference_json>>
    /\ UNCHANGED <<pmerged, perr, resp>>
    /\ UNCHANGED <<gvars, svars, cvars, ret>>

\* merge_job_results, step 6: the header and the rows reach the file when
\* the with block closes it
MergeWrite(p) ==
    /\ ppc[p] = "write"
    /\ final_csv' = final_written(pmerged[p])
    /\ pmerged' = [pmerged EXCEPT ![p] = <<>>]
    /\ ppc' = [ppc EXCEPT ![p] = "status"]
    /\ UNCHANGED <<ws, original_csv, train_csv, predict_csv, predictions_csv,
                   error_json, inference_json>>
    /\ UNCHANGED <<perr, resp>>
    /\ UNCHANGED <<gvars, svars, cvars, ret>>

\* get_job_status returns job_status(job_id); a KeyError is a 500
StatusReturn(p) ==
    /\ ppc[p] = "status"
    /\ resp' = [resp EXCEPT ![p] = job_status]
    /\ ppc' = [ppc EXCEPT ![p] = "idle"]
    /\ perr' = [perr EXCEPT ![p] = "none"]
    /\ UNCHANGED pmerged
    /\ UNCHANGED <<gvars, fvars, svars, cvars, ret>>

Init ==
    /\ GeoIdle /\ NoWorkspace /\ EmptyBucket /\ NoRequests /\ NoPolls
    /\ ret = "none"

Next ==
    \/ CreateJobReject
    \/ CreateJobAccept
    \/ CreateJobBuildSparse
    \/ CreateJobWriteSparse
    \/ CreateJobBuildExplicit
    \/ CreateJobWriteExplicit
    \/ CreateJobUpload
    \/ CreateJobTrigger
    \/ CreateJobRecord
    \/ PredictorResolves
    \/ PredictorReports
    \/ \E p \in Pollers :
         \/ TryMergeGuard(p)
         \/ DownloadMkdir(p)
         \/ DownloadFetch(p)
         \/ MergeLoad(p)
         \/ MergeOpen(p)
         \/ MergeWrite(p)
         \/ StatusReturn(p)

Spec == Init /\ [][Next]_vars

\* one GET /jobs/{job_id}/status handler: try_merge, then job_status
get_job_status(p) ==
    \/ TryMergeGuard(p)
    \/ DownloadMkdir(p)
    \/ DownloadFetch(p)
    \/ MergeLoad(p)
    \/ MergeOpen(p)
    \/ MergeWrite(p)
    \/ StatusReturn(p)

\* the system with clients that keep polling: every request thread is
\* scheduled again and again, and a returned request is followed by another
SpecLive == Init /\ [][Next]_vars /\ \A p \in Pollers : WF_vars(get_job_status(p))

\* ------------------------------------------------------------------------
\* Properties
\* ------------------------------------------------------------------------
station_indexes(rows) == [n \in 1..Len(rows) |-> rows[n].station_index]

SplitEnded == gpc = "split" \/ (gpc = "raised" /\ gerr = "UnboundLocalError")

\* C1: split_train_predict returns (train, predict) with
\* len(train) + len(predict) equal to the number of classified stations, the
\* measured stations' indexes in train and the others' in predict, each in
\* the stations' order.
C1_SplitPartitions ==
    SplitEnded =>
        /\ gerr = "none"
        /\ Len(gtrain) + Len(gpredict) = Len(gcanonical)
        /\ station_indexes(gtrain)
             = station_indexes(SelectSeq(gcanonical, LAMBDA st : st.measured = 1))
        /\ station_indexes(gpredict)
             = station_indexes(SelectSeq(gcanonical, LAMBDA st : st.measured # 1))

GenerateEnded == gpc = "generated" \/ (gpc = "raised" /\ gerr = "IndexError")

\* C2: for a non-empty parameterized sequence and a positive spacing, the
\* last target generate_target_stations returns has the x, y and d_along of
\* the last parameterized point.
C2_LastTargetIsLastPoint ==
    (GenerateEnded /\ gparam # <<>> /\ gspacing > 0) =>
        /\ gerr = "none"
        /\ gtargets # <<>>
        /\ gtargets[Len(gtargets)].x = gparam[Len(gparam)].x
        /\ gtargets[Len(gtargets)].y = gparam[Len(gparam)].y
        /\ gtargets[Len(gtargets)].d_along = gparam[Len(gparam)].d_along

\* C3: when the merge of a status poll has failed on a row count mismatch,
\* the failure artifact error.json is recorded by the time try_merge returns
\* (so that the status is failed and later polls skip download and merge).
C3_MismatchRecordsFailure ==
    \A p \in Pollers :
        (ppc[p] = "status" /\ perr[p] = MismatchError) => error_json # None

CountsDiffer ==
    /\ train_csv # None /\ predict_csv # None /\ predictions_csv # None
    /\ Len(predict_csv[1]) # Len(predictions_csv[1])

CountsEqual ==
    /\ train_csv # None /\ predict_csv # None /\ predictions_csv # None
    /\ Len(predict_csv[1]) = Len(predictions_csv[1])

\* C4: a run of merge_job_results with a number of predicted values
\* different from the number of predict rows raises, and final.csv is the
\* same after the call as before it.
C4_MismatchWritesNothing ==
    [][(MergeCall /\ CountsDiffer) => (ret' # "final" /\ final_csv' = final_csv)]_vars

\* a mismatched merge has run on a workspace that already held a final.csv
C4_Witness == ret = MismatchError /\ final_csv # None

MergeOutcomes ==
    {"final", "FileNotFoundError", "KeyError", "ValueError", MismatchError}

Occurrences(rows, r) == Cardinality({n \in 1..Len(rows) : rows[n] = r})

ExpectedFinalRows ==
    [n \in 1..Len(train_csv[1]) |->
        [x |-> train_csv[1][n].x[1], y |-> train_csv[1][n].y[1],
         d_along |-> train_csv[1][n].d_along[1],
         value |-> train_csv[1][n].value[1], source |-> "measured"]]
    \o [n \in 1..Len(predict_csv[1]) |->
        [x |-> predict_csv[1][n].x[1], y |-> predict_csv[1][n].y[1],
         d_along |-> predict_csv[1][n].d_along[1],
         value |-> predictions_csv[1][n].predicted_value[1],
         source |-> "predicted"]]

\* C5: a run of merge_job_results with as many predicted values as predict
\* rows writes a final sequence holding one "measured" row per train row and
\* one "predicted" row per predict row, the i-th with the i-th predicted
\* value, of length len(train) + len(predict), sorted by d_along ascending.
C5_MergedResult ==
    (ret \in MergeOutcomes /\ CountsEqual) =>
        /\ ret = "final"
        /\ final_csv # None
        /\ final_csv[1].header
        /\ LET f == final_csv[1].rows
           IN  /\ Len(f) = Len(train_csv[1]) + Len(predict_csv[1])
               /\ \A n \in 1..Len(f) :
                    Occurrences(f, f[n]) = Occurrences(ExpectedFinalRows, f[n])
               /\ \A n \in 1..Len(ExpectedFinalRows) :
                    Occurrences(f, ExpectedFinalRows[n])
                      = Occurrences(ExpectedFinalRows, ExpectedFinalRows[n])
               /\ \A m, n \in 1..Len(f) : m < n => f[m].d_along <= f[n].d_along

\* a merge has run on train and predict rows that the sort had to reorder
C5_Witness ==
    /\ ret = "final"
    /\ CountsEqual
    /\ Len(train_csv[1]) > 0
    /\ Len(predict_csv[1]) > 0
    /\ final_csv[1].rows # ExpectedFinalRows

\* C6: a status query for a job id that no POST /jobs has drawn finds no
\* workspace, returns not_found, and creates no workspace.
C6_UnknownJobStaysNotFound ==
    cj = "idle" =>
        /\ ~ws
        /\ \A p \in Pollers : resp[p] \in {"none", "not_found"}

PredictorFailed ==
    inference_json # None /\ async_key(SmJobName, "error") \in async_keys
PredictorCompleted ==
    inference_json # None /\ async_key(SmJobName, "out") \in async_keys

DecisionTable ==
    IF ~ws THEN "not_found"
    ELSE IF error_json # None THEN "failed"
    ELSE IF final_csv # None THEN "complete"
    ELSE IF predictions_csv # None THEN "merging"
    ELSE IF PredictorFailed THEN "failed"
    ELSE IF PredictorCompleted THEN "completed_inference"
    ELSE IF inference_json # None THEN "inferencing"
    ELSE IF train_csv # None THEN "processing"
    ELSE "accepted"

\* C7: for every combination of artifacts and predictor state, job_status
\* returns the status of the first matching rule of the decision table, and
\* it changes no artifact.
C7_DecisionTable ==
    [][StatusCall => (ret' = DecisionTable /\ UNCHANGED <<fvars, svars>>)]_vars

C9_SubmittedJobIsInferencing ==
    [][\A p \in Pollers :
          (/\ StatusReturn(p)
           /\ cj = "done" /\ cj_resp = "inferencing"
           /\ inference_json # None
           /\ async_keys = {}
           /\ error_json = None /\ final_csv = None /\ predictions_csv = None)
          => resp'[p] = "inferencing"]_vars

FinalIsWhole ==
    /\ final_csv # None
    /\ final_csv[1].header
    /\ train_csv # None /\ predict_csv # None
    /\ Len(final_csv[1].rows) = Len(train_csv[1]) + Len(predict_csv[1])
    /\ \A m, n \in 1..Len(final_csv[1].rows) :
         m < n => final_csv[1].rows[m].d_along <= final_csv[1].rows[n].d_along

\* C10: whenever a status query returns complete, final.csv holds the whole
\* merged result, len(train) + len(predict) rows sorted by d_along.
C10_CompleteMeansWholeResult ==
    [][\A p \in Pollers :
          (StatusReturn(p) /\ resp'[p] = "complete") => FinalIsWhole]_vars

\* C11: a call of try_merge made while final.csv or error.json exists returns
\* without entering the download or the merge, and every artifact of the
\* job, in the workspace and in the bucket, is the same after it as before.
C11_TryMergeSkips ==
    [][\A p \in Pollers :
          (TryMergeGuard(p) /\ (final_csv # None \/ error_json # None))
          => /\ ppc'[p] = "status"
             /\ UNCHANGED <<fvars, svars, pmerged, perr>>]_vars

\* try_merge has returned at once on a job whose error.json is recorded: the
\* thread is past try_merge with no exception swallowed, and no predictor
\* output it could have merged exists
C11_Witness ==
    \E p \in Pollers :
        /\ ppc[p] = "status" /\ perr[p] = "none"
        /\ error_json # None /\ final_csv = None /\ s3_output = None

\* Generate has been left: generate_target_stations returned, raised, or its
\* loop is still running after MaxTargets targets
GenerateLeft == gpc \notin {"input", "parameterized"}

\* generate_target_stations ended by raising an exception
GenerateRaised ==
    gpc = "raised" /\ gerr \notin {"none", "unbounded", "UnboundLocalError"}

\* C12: for every spacing <= 0 and every non-empty measured set (the ones
\* create_job hands over in sparse mode), generate_target_stations ends by
\* raising an error: it neither returns stations nor keeps looping.
C12_NonPositiveSpacingRejected ==
    (GenerateLeft /\ gparam # <<>> /\ gspacing <= 0) => GenerateRaised

\* build_canonical_stations_sparse has returned or raised
BuildEnded ==
    gpc \in {"classified", "split"} \/ (gpc = "raised" /\ gerr # "unbounded")

\* C13: for one measured point and a positive spacing,
\* build_canonical_stations_sparse returns exactly one station: index 0, at
\* the point's x and y, d_along 0, measured, with the point's value.
C13_SinglePointOneStation ==
    (BuildEnded /\ Len(gpoints) = 1 /\ gspacing > 0) =>
        /\ gerr \in {"none", "UnboundLocalError"}
        /\ gcanonical = <<[station_index |-> 0,
                           x |-> gpoints[1].x, y |-> gpoints[1].y,
                           d_along |-> 0, measured |-> 1,
                           value |-> Some(gpoints[1].value)]>>

\* classify_stations has returned
ClassifyEnded ==
    gpc \in {"classified", "split"} \/ (gpc = "raised" /\ gerr = "UnboundLocalError")

\* measured point k lies within the tolerance of target n
Within(k, n) == Abs(gparam[k].d_along - gtargets[n].d_along) <= TOLERANCE

\* C14 as stated: a target is labeled measured with the value of every
\* measured point within the tolerance of it, and generated with no value
\* when there is none.
C14_EveryMatchGivesValue ==
    ClassifyEnded =>
        /\ Len(gcanonical) = Len(gtargets)
        /\ \A n \in 1..Len(gtargets) :
             /\ \A k \in 1..Len(gparam) :
                  Within(k, n) =>
                    /\ gcanonical[n].measured = 1
                    /\ gcanonical[n].value = Some(gparam[k].value)
             /\ (\A k \in 1..Len(gparam) : ~Within(k, n)) =>
                    /\ gcanonical[n].measured = 0
                    /\ gcanonical[n].value = None

\* C14: a target with a measured point within the tolerance is labeled
\* measured and carries the value of the first such point in traverse order;
\* a target with none is labeled generated with no value.
C14_FirstMatchGivesValue ==
    ClassifyEnded =>
        /\ Len(gcanonical) = Len(gtargets)
        /\ \A n \in 1..Len(gtargets) :
             /\ \A k \in 1..Len(gparam) :
                  (Within(k, n) /\ \A j \in 1..(k - 1) : ~Within(j, n)) =>
                    /\ gcanonical[n].measured = 1
                    /\ gcanonical[n].value = Some(gparam[k].value)
             /\ (\A k \in 1..Len(gparam) : ~Within(k, n)) =>
                    /\ gcanonical[n].measured = 0
                    /\ gcanonical[n].value = None

\* the classifier has labeled a target that two measured points of different
\* values lie within the tolerance of, one of them off the target, and a
\* target that no measured point lies within the tolerance of
C14_Witness ==
    /\ ClassifyEnded
    /\ \E n \in 1..Len(gtargets) : \E j, k \in 1..Len(gparam) :
         /\ Within(j, n) /\ Within(k, n)
         /\ gparam[j].value # gparam[k].value
         /\ gparam[k].d_along # gtargets[n].d_along
         /\ gcanonical[n].measured = 1
    /\ \E n \in 1..Len(gtargets) :
         /\ \A k \in 1..Len(gparam) : ~Within(k, n)
         /\ gcanonical[n].measured = 0

\* train.csv and predict.csv exist, no error.json is recorded, and the
\* predictor's output holds as many values as predict.csv has rows
ReadyToMerge ==
    /\ train_csv # None /\ predict_csv # None
    /\ error_json = None
    /\ s3_output # None
    /\ Len(s3_output[1]) = Len(predict_csv[1])

\* C15: once train.csv and predict.csv exist, no error is recorded and the
\* predictor's output is downloadable with as many values as predict rows,
\* fair polling leads to a point from which every status request has
\* returned complete and keeps returning complete.
C15_EventuallyComplete ==
    ReadyToMerge ~> [](\A p \in Pollers : resp[p] = "complete")

====
